---- MODULE Spec2Model ----
(***************************************************************************)
(* A model of the Editor Host (ComponentView): the URL-resolution effect    *)
(* with the offline editor bundle download/unpack flow, the component       *)
(* update check, the frame-load timers, the navigation-interception handler *)
(* and the inbound message handler.                                          *)
(***************************************************************************)
EXTENDS Integers, Sequences, FiniteSets, TLC

VARIABLES
    platform,                 \* Platform.OS
    offlineOnly,              \* prop offlineOnly
    canonical,                \* urlForComponent(item) returns a URL (TRUE) or nothing
    packageInfo,              \* liveComponent.item.package_info
    viewMounted,              \* the view is mounted
    url,                      \* state url
    offlineUrl,               \* state offlineUrl
    readAccessUrl,            \* state readAccessUrl (a version, "" when unset)
    downloadingOfflineEditor, \* state downloadingOfflineEditor
    pendingEffect,            \* a render committed whose resolution effect has not run yet
    dirs,                     \* filesystem: editors/<identifier>/<version> per version
    zip,                      \* filesystem: <identifier>.zip exists
    archive,                  \* the package the archive at download_url holds
    runs,                     \* the runs of the resolution effect, in order
    upd,                      \* the update check of each run, and the one that ended last
    calls,                    \* counts of the calls made to the caller and the managers
    loadedOnce,               \* state loadedOnce
    timeoutRef,               \* timeoutRef.current (0 when undefined)
    timers,                   \* the pending timers
    loads,                    \* the frame loads seen so far, in order
    frameErrors,              \* the number of frame load errors seen so far
    requests,                 \* the number of navigation requests seen so far
    lastRequest,              \* the last navigation request and what the handler answered
    opened,                   \* the URLs passed to deviceInterface.openUrl
    msgs,                     \* the number of messages received so far
    lastMsg,                  \* event.nativeEvent.data of the last message
    handled,                  \* the calls of componentManager.handleMessage
    sections,                 \* BottomSheet: props.sections
    animationValue,           \* BottomSheet: the animationValue of each section
    animations,               \* BottomSheet: the timing animation of each value
    selected,                 \* BottomSheet: the key last passed to expandSection
    wasExpanded,              \* BottomSheet: the keys at value 1 when it was passed
    title,                    \* BottomSheet: props.title is set
    titleHeight,              \* BottomSheet: state titleHeight
    listHeight,               \* BottomSheet: state listHeight
    screenHeight,             \* Dimensions.get('window').height
    snapPoints                \* BottomSheet: the memoised snapPoints, in hundredths

(***************************************************************************)
(* Bounds                                                                    *)
(***************************************************************************)
MaxRuns == 3      \* runs of the resolution effect
MaxLoads == 3     \* frame loads
MaxErrors == 2    \* frame load errors
MaxRequests == 2  \* navigation requests
MaxMsgs == 1      \* inbound messages
NumSections == 3  \* sections of the action sheet
Frames == 3       \* animation frames in the duration of a timing animation
MaxHeight == 25   \* the largest layout height, in steps of 20
MaxMsgLen == 4    \* characters of an inbound message

(***************************************************************************)
(* Values                                                                    *)
(***************************************************************************)
Versions == {"1.0", "2.0"}
FileNames == {"index.html", "editor.html"}

\* A URL: the empty string, the component's canonical (remote) URL, or a local file URL
NoUrl == [scheme |-> "", ver |-> "", file |-> ""]
RemoteUrl == [scheme |-> "https", ver |-> "", file |-> ""]
FileUrl(v, f) == [scheme |-> "file", ver |-> v, file |-> f]

\* What a version directory holds: nothing (absent), no entry (empty), or one
\* top-level package directory with a package.json (sn.main: "invalid" when it is
\* missing or does not parse, "" when it names no main file) and some files.
Absent == [kind |-> "absent", manifest |-> "", files |-> {}]
EmptyDir == [kind |-> "empty", manifest |-> "", files |-> {}]
Pkg(m, fs) == [kind |-> "pkg", manifest |-> m, files |-> fs]
Packages == {Pkg("invalid", {}), Pkg("", {}), Pkg("", {"index.html"}),
             Pkg("editor.html", {"editor.html"}), Pkg("editor.html", {"index.html"})}
PartialPkg == Pkg("invalid", {})
DirStates == {Absent, EmptyDir} \cup Packages

PackageInfos == [version : Versions, latest_url : BOOLEAN]
\* The manifest the latest_url serves: the newest version's
Manifests == {[version |-> "2.0", latest_url |-> TRUE]}

NoCalls == [onLoadError |-> 0, onDownloadEditorStart |-> 0, onDownloadEditorEnd |-> 0,
            alert |-> 0]

Bump(c, name) == [c EXCEPT ![name] = @ + 1]


mainVars == <<platform, offlineOnly, canonical, archive, packageInfo, viewMounted, url,
              offlineUrl, readAccessUrl, downloadingOfflineEditor, pendingEffect, dirs, zip,
              runs, upd, calls>>
frameVars == <<loadedOnce, timeoutRef, timers, loads, frameErrors>>
eventVars == <<requests, lastRequest, opened, msgs, lastMsg, handled>>
layoutVars == <<title, titleHeight, listHeight, screenHeight, snapPoints>>
sheetVars == <<sections, animationValue, animations, selected, wasExpanded, layoutVars>>
vars == <<mainVars, frameVars, eventVars, sheetVars>>

(***************************************************************************)
(* checkForComponentUpdate                                                   *)
(***************************************************************************)
NoInfo == [version |-> "", latest_url |-> FALSE]

\* An update check in flight: where it is, and the version of the component it was given.
IdleUpd == [pc |-> "idle", cur |-> "", latest |-> FALSE]

\* The update check that ended last: the version and latest_url of the component it was
\* given, the fetches and changeAndSaveItem calls it made, what the fetch gave ("none"
\* without a fetch), what isStarted() answered when a manifest came, and the manifest
\* it saved.
NoCheck == [cur |-> "", latest |-> FALSE, fetches |-> 0, mutations |-> 0, got |-> "", fetched |-> NoInfo,
            started |-> FALSE, saved |-> NoInfo]

\* The synchronous part of checkForComponentUpdate(application, component): return at
\* once without a latest_url, else start the fetch.
StartUpdate(info) ==
    [pc |-> IF info.latest_url THEN "fetch" ELSE "done", cur |-> info.version,
     latest |-> info.latest_url]

SetCheck(checks, i, c) ==
    IF i \in DOMAIN checks THEN [checks EXCEPT ![i] = c] ELSE Append(checks, c)

\* Run i calls checkForComponentUpdate(application, liveComponent.item)
BeginUpdate(u, i, info) ==
    [checks |-> SetCheck(u.checks, i, StartUpdate(info)),
     last |-> IF StartUpdate(info).pc = "fetch" THEN u.last
              ELSE [NoCheck EXCEPT !.cur = info.version, !.latest = info.latest_url,
                                   !.got = "none"]]

\* Run i has not called it (yet)
NoUpdate(u, i) == [u EXCEPT !.checks = SetCheck(@, i, IdleUpd)]

\* A condition that saves whatever version the manifest has
ShouldSaveAnyVersion(kind, info, cur, started) == kind = "json" /\ started

\* packageInfo && packageInfo.version !== component.package_info.version && isStarted()
ShouldSave(kind, info, cur, started) == kind = "json" /\ info.version # cur /\ started

\* The fetch settles: it rejects ("throw"), yields null ("null") or a manifest ("json");
\* `started` is what application.isStarted() answers.
FetchSettles(r, kind, info, started) ==
    /\ r \in DOMAIN upd.checks
    /\ upd.checks[r].pc = "fetch"
    /\ LET cur == upd.checks[r].cur
           save == ShouldSave(kind, info, cur, started)
       IN
       /\ upd' = [checks |-> [upd.checks EXCEPT ![r].pc = "done"],
                  last |-> [cur |-> cur, latest |-> upd.checks[r].latest, fetches |-> 1,
                            mutations |-> IF save THEN 1 ELSE 0,
                            got |-> kind,
                            fetched |-> IF kind = "json" THEN info ELSE NoInfo,
                            started |-> kind = "json" /\ started,
                            saved |-> IF save THEN info ELSE NoInfo]]
       /\ packageInfo' = IF save THEN info ELSE packageInfo
    /\ UNCHANGED <<platform, offlineOnly, canonical, archive, viewMounted, url, offlineUrl,
                   readAccessUrl, downloadingOfflineEditor, pendingEffect, dirs, zip, runs,
                   calls>>
    /\ UNCHANGED <<frameVars, eventVars, sheetVars>>

(***************************************************************************)
(* The resolution effect: setEditorUrl and getOfflineEditorUrl               *)
(***************************************************************************)
env == <<platform, offlineOnly, canonical, archive, viewMounted>>

\* One run of the effect: where its getOfflineEditorUrl call is suspended, the effect's
\* local `mounted`, the downloadingOfflineEditor its closure captured, the version its
\* versionDir names, what the shouldDownload check found, the main file name it read,
\* the download steps it performed, the calls it made after its effect was torn down,
\* how the call ended, whether the effect was still current then, what the call
\* returned and what setEditorUrl did with it.
NewRun == [pc |-> "done", mounted |-> TRUE, flag |-> FALSE, ver |-> "", found |-> "",
           main |-> "", ops |-> <<>>, late |-> {}, outcome |-> "", current |-> FALSE,
           result |-> NoUrl, stored |-> ""]

LateAdd(run, names) == IF run.mounted THEN run.late ELSE run.late \cup names

\* A check that downloads whatever the version directory holds
ShouldDownloadAlways(flag, found) == ~flag

\* shouldDownload = !downloadingOfflineEditor && (!exists(versionDir) || readDir(versionDir).length === 0)
ShouldDownload(flag, found) == ~flag /\ found \in {"absent", "empty"}

\* setDownloadingOfflineEditor(v): a change of value renders the view, and a render
\* first runs the effects of the render before it.
CanSet(v) == (viewMounted /\ v # downloadingOfflineEditor) => ~pendingEffect
FlagAfter(v) == IF viewMounted THEN v ELSE downloadingOfflineEditor
PendingAfter(v) == pendingEffect \/ (viewMounted /\ v # downloadingOfflineEditor)

ClearTimeout(ts, id) == {t \in ts : t.id # id}

\* A catch that falls back to the remote URL in offline-only mode too
CatchStoresAlwaysRemote(isMounted, only) == IF ~isMounted THEN "dropped" ELSE "setUrl"

\* The catch of setEditorUrl: nothing once the effect is torn down, onLoadErrorHandler()
\* in offline-only mode, setUrl(newUrl) otherwise.
CatchStores(isMounted, only) ==
    IF ~isMounted THEN "dropped" ELSE IF only THEN "onLoadError" ELSE "setUrl"

\* A try that stores the result without looking at `mounted`
TryStoresUnchecked(isMounted) == "setOfflineUrl"

\* The try of setEditorUrl: setOfflineUrl(offlineEditorUrl) while the effect is current.
TryStores(isMounted) == IF isMounted THEN "setOfflineUrl" ELSE "dropped"

\* A handler that leaves the registration timer pending
TimersAfterLoadErrorKept(ts, ref) == ts

\* onLoadErrorHandler: clear the registration timer, then onLoadError().
TimersAfterLoadError(ts, ref) == IF ref # 0 THEN ClearTimeout(ts, ref) ELSE ts

\* getOfflineEditorUrl rejects in run r (as changed to `run` by the step that fails).
Throws(r, run) ==
    LET what == CatchStores(run.mounted, offlineOnly) IN
    /\ runs' = [runs EXCEPT ![r] = [run EXCEPT !.pc = "done", !.outcome = "threw",
                                               !.current = run.mounted, !.stored = what,
                                               !.late = LateAdd(run, {what} \ {"dropped"})]]
    /\ url' = IF what = "setUrl" THEN RemoteUrl ELSE url
    /\ timers' = IF what = "onLoadError" THEN TimersAfterLoadError(timers, timeoutRef) ELSE timers
    /\ UNCHANGED <<offlineUrl, loadedOnce, timeoutRef, loads, frameErrors, eventVars, sheetVars>>

CallsAfterThrow(c, run) ==
    IF CatchStores(run.mounted, offlineOnly) = "onLoadError" THEN Bump(c, "onLoadError") ELSE c

\* getOfflineEditorUrl resolves to u in run r.
Returns(r, u) ==
    LET what == TryStores(runs[r].mounted) IN
    /\ runs' = [runs EXCEPT ![r] = [@ EXCEPT !.pc = "done", !.outcome = "returned",
                                             !.current = runs[r].mounted, !.result = u,
                                             !.stored = what,
                                             !.late = LateAdd(runs[r], {what} \ {"dropped"})]]
    /\ offlineUrl' = IF what = "setOfflineUrl" THEN u ELSE offlineUrl

\* The effect of a committed render runs: the previous run's cleanup sets its `mounted`
\* to false, then setEditorUrl runs up to its first suspension.
RunEffect ==
    /\ viewMounted
    /\ pendingEffect
    /\ Len(runs) < MaxRuns
    /\ pendingEffect' = FALSE
    /\ LET old == [i \in DOMAIN runs |-> [runs[i] EXCEPT !.mounted = FALSE]]
           flag == downloadingOfflineEditor
           new == [NewRun EXCEPT !.flag = flag, !.ver = packageInfo.version]
       IN IF ~canonical
          THEN /\ runs' = Append(old, [NewRun EXCEPT !.flag = flag, !.outcome = "alert"])
               /\ upd' = NoUpdate(upd, Len(runs) + 1)
               /\ calls' = Bump(calls, "alert")
               /\ UNCHANGED readAccessUrl
          ELSE /\ readAccessUrl' = packageInfo.version
               /\ IF flag
                  THEN /\ ~ShouldDownload(flag, "skipped")
                       /\ runs' = Append(old, [new EXCEPT !.pc = "readDir", !.found = "skipped"])
                       /\ upd' = BeginUpdate(upd, Len(runs) + 1, packageInfo)
                       /\ UNCHANGED calls
                  ELSE /\ runs' = Append(old, [new EXCEPT !.pc = "exists"])
                       /\ upd' = NoUpdate(upd, Len(runs) + 1)
                       /\ UNCHANGED calls
    /\ UNCHANGED <<env, packageInfo, url, offlineUrl, downloadingOfflineEditor, dirs, zip>>
    /\ UNCHANGED <<frameVars, eventVars, sheetVars>>

\* The code between the shouldDownload check and the next suspension: the update check
\* is started, and a download begins with setDownloadingOfflineEditor(true) and
\* onDownloadEditorStart().
Decide(r, found) ==
    LET run == runs[r] IN
    /\ upd' = BeginUpdate(upd, r, packageInfo)
    /\ IF ShouldDownload(run.flag, found)
       THEN /\ CanSet(TRUE)
            /\ downloadingOfflineEditor' = FlagAfter(TRUE)
            /\ pendingEffect' = PendingAfter(TRUE)
            /\ calls' = Bump(calls, "onDownloadEditorStart")
            /\ runs' = [runs EXCEPT ![r] =
                           [run EXCEPT !.pc = "existsEditor", !.found = found,
                                       !.ops = <<"start">>,
                                       !.late = LateAdd(run, {"setDownloadingOfflineEditor",
                                                              "onDownloadEditorStart"})]]
       ELSE /\ runs' = [runs EXCEPT ![r] = [run EXCEPT !.pc = "readDir", !.found = found]]
            /\ UNCHANGED calls
            /\ UNCHANGED <<downloadingOfflineEditor, pendingEffect>>
    /\ UNCHANGED <<env, packageInfo, url, offlineUrl, readAccessUrl, dirs, zip>>
    /\ UNCHANGED <<frameVars, eventVars, sheetVars>>

\* await RNFS.exists(versionDir)
ExistsVersionDir(r) ==
    /\ r \in DOMAIN runs
    /\ runs[r].pc = "exists"
    /\ IF dirs[runs[r].ver].kind = "absent"
       THEN Decide(r, "absent")
       ELSE /\ runs' = [runs EXCEPT ![r].pc = "list"]
            /\ UNCHANGED <<env, packageInfo, url, offlineUrl, readAccessUrl,
                           downloadingOfflineEditor, pendingEffect, dirs, zip, upd, calls>>
            /\ UNCHANGED <<frameVars, eventVars, sheetVars>>

\* (await RNFS.readDir(versionDir)).length === 0
ListVersionDir(r) ==
    /\ r \in DOMAIN runs
    /\ runs[r].pc = "list"
    /\ IF dirs[runs[r].ver].kind = "absent"
       THEN /\ Throws(r, runs[r])
            /\ calls' = CallsAfterThrow(calls, runs[r])
            /\ UNCHANGED <<env, packageInfo, readAccessUrl, downloadingOfflineEditor,
                           pendingEffect, dirs, zip, upd>>
       ELSE Decide(r, IF dirs[runs[r].ver].kind = "empty" THEN "empty" ELSE "populated")

\* The finally block: onDownloadEditorEnd(), then setDownloadingOfflineEditor(false).
Finally(run) ==
    [run EXCEPT !.ops = Append(@, "end"),
                !.late = LateAdd(run, {"onDownloadEditorEnd", "setDownloadingOfflineEditor"})]

\* A step of the download fails in run r: the finally block runs and the call rejects.
Fails(r) ==
    LET run == Finally([runs[r] EXCEPT !.ops = Append(@, "fail")]) IN
    /\ CanSet(FALSE)
    /\ downloadingOfflineEditor' = FlagAfter(FALSE)
    /\ pendingEffect' = PendingAfter(FALSE)
    /\ Throws(r, run)
    /\ calls' = CallsAfterThrow(Bump(calls, "onDownloadEditorEnd"), run)
    /\ UNCHANGED <<env, packageInfo, readAccessUrl, upd>>

\* A step of the download succeeds in run r, which goes on to `next`.
Advances(r, op, next) ==
    /\ runs' = [runs EXCEPT ![r] = [@ EXCEPT !.pc = next, !.ops = Append(@, op)]]
    /\ UNCHANGED <<env, packageInfo, url, offlineUrl, readAccessUrl, downloadingOfflineEditor,
                   pendingEffect, upd, calls>>
    /\ UNCHANGED <<frameVars, eventVars, sheetVars>>

\* A check that looks at the version directory only
VersionDirExists == \E v \in {packageInfo.version} : dirs[v].kind # "absent"

EditorDirExists == \E v \in Versions : dirs[v].kind # "absent"

\* if (await RNFS.exists(editorDir))
ExistsEditorDir(r) ==
    /\ r \in DOMAIN runs
    /\ runs[r].pc = "existsEditor"
    /\ runs' = [runs EXCEPT ![r].pc = IF EditorDirExists THEN "unlinkDir" ELSE "download"]
    /\ UNCHANGED <<env, packageInfo, url, offlineUrl, readAccessUrl, downloadingOfflineEditor,
                   pendingEffect, dirs, zip, upd, calls>>
    /\ UNCHANGED <<frameVars, eventVars, sheetVars>>

\* await RNFS.unlink(editorDir)
UnlinkEditorDir(r, ok) ==
    /\ r \in DOMAIN runs
    /\ runs[r].pc = "unlinkDir"
    /\ IF ok
       THEN /\ dirs' = [v \in Versions |-> Absent]
            /\ Advances(r, "unlinkDir", "download")
       ELSE /\ Fails(r)
            /\ UNCHANGED dirs
    /\ UNCHANGED zip

\* await RNFS.downloadFile({fromUrl: downloadUrl, toFile: downloadPath}).promise
DownloadFile(r, ok) ==
    /\ r \in DOMAIN runs
    /\ runs[r].pc = "download"
    /\ IF ok
       THEN /\ zip' = TRUE
            /\ Advances(r, "download", "unzip")
       ELSE /\ Fails(r)
            /\ UNCHANGED zip
    /\ UNCHANGED dirs

\* await unzip(downloadPath, versionDir): the archive's package is unpacked, or the
\* unpacking fails and leaves the directory as it was, empty or partly written.
Unzip(r, ok, d) ==
    /\ r \in DOMAIN runs
    /\ runs[r].pc = "unzip"
    /\ IF ok
       THEN /\ zip
            /\ d = archive
            /\ Advances(r, "unzip", "unlinkZip")
       ELSE /\ d \in {dirs[runs[r].ver], EmptyDir, PartialPkg}
            /\ Fails(r)
    /\ dirs' = [dirs EXCEPT ![runs[r].ver] = d]
    /\ UNCHANGED zip

\* await RNFS.unlink(downloadPath), then the finally block
UnlinkZip(r, ok) ==
    /\ r \in DOMAIN runs
    /\ runs[r].pc = "unlinkZip"
    /\ IF ok
       THEN /\ zip' = FALSE
            /\ CanSet(FALSE)
            /\ downloadingOfflineEditor' = FlagAfter(FALSE)
            /\ pendingEffect' = PendingAfter(FALSE)
            /\ runs' = [runs EXCEPT ![r] =
                           [Finally([@ EXCEPT !.ops = Append(@, "unlinkZip")])
                               EXCEPT !.pc = "readDir"]]
            /\ calls' = Bump(calls, "onDownloadEditorEnd")
            /\ UNCHANGED <<env, packageInfo, url, offlineUrl, readAccessUrl, upd>>
            /\ UNCHANGED <<frameVars, eventVars, sheetVars>>
       ELSE /\ Fails(r)
            /\ UNCHANGED zip
    /\ UNCHANGED dirs

\* packageJson?.sn?.main || 'index.html'
MainFileName(manifest) == IF manifest # "" THEN manifest ELSE "index.html"

\* const packageDir = await RNFS.readDir(versionDir); packageDir[0].path
ReadVersionDir(r) ==
    /\ r \in DOMAIN runs
    /\ runs[r].pc = "readDir"
    /\ IF dirs[runs[r].ver].kind = "pkg"
       THEN /\ runs' = [runs EXCEPT ![r].pc = "readFile"]
            /\ UNCHANGED <<url, offlineUrl, calls>>
            /\ UNCHANGED <<frameVars, eventVars, sheetVars>>
       ELSE /\ Throws(r, runs[r])
            /\ calls' = CallsAfterThrow(calls, runs[r])
    /\ UNCHANGED <<env, packageInfo, readAccessUrl, downloadingOfflineEditor, pendingEffect,
                   dirs, zip, upd>>

\* JSON.parse(await RNFS.readFile(packageJsonPath))
ReadPackageJson(r) ==
    /\ r \in DOMAIN runs
    /\ runs[r].pc = "readFile"
    /\ LET d == dirs[runs[r].ver] IN
       IF d.kind = "pkg" /\ d.manifest # "invalid"
       THEN /\ runs' = [runs EXCEPT ![r] = [@ EXCEPT !.pc = "existsMain",
                                                     !.main = MainFileName(d.manifest)]]
            /\ UNCHANGED <<url, offlineUrl, calls>>
            /\ UNCHANGED <<frameVars, eventVars, sheetVars>>
       ELSE /\ Throws(r, runs[r])
            /\ calls' = CallsAfterThrow(calls, runs[r])
    /\ UNCHANGED <<env, packageInfo, readAccessUrl, downloadingOfflineEditor, pendingEffect,
                   dirs, zip, upd>>

\* if (await RNFS.exists(mainFilePath)) return `file://${mainFilePath}`; return ''
OfflineUrlFor(d, v, main) ==
    IF d.kind = "pkg" /\ main \in d.files THEN FileUrl(v, main) ELSE NoUrl

ExistsMainFile(r) ==
    /\ r \in DOMAIN runs
    /\ runs[r].pc = "existsMain"
    /\ Returns(r, OfflineUrlFor(dirs[runs[r].ver], runs[r].ver, runs[r].main))
    /\ UNCHANGED <<env, packageInfo, url, readAccessUrl, downloadingOfflineEditor,
                   pendingEffect, dirs, zip, upd, calls>>
    /\ UNCHANGED <<frameVars, eventVars, sheetVars>>

\* The parent renders the view with new props (a callback of another identity): the
\* effect's dependencies change.
PropsChange ==
    /\ viewMounted
    /\ ~pendingEffect
    /\ Len(runs) < MaxRuns
    /\ pendingEffect' = TRUE
    /\ UNCHANGED <<env, packageInfo, url, offlineUrl, readAccessUrl, downloadingOfflineEditor,
                   dirs, zip, runs, upd, calls>>
    /\ UNCHANGED <<frameVars, eventVars, sheetVars>>

\* The view is unmounted: the effect's cleanup runs.
Unmount ==
    /\ viewMounted
    /\ ~pendingEffect
    /\ viewMounted' = FALSE
    /\ runs' = [i \in DOMAIN runs |-> [runs[i] EXCEPT !.mounted = FALSE]]
    /\ UNCHANGED <<platform, offlineOnly, canonical, archive, packageInfo, url, offlineUrl,
                   readAccessUrl, downloadingOfflineEditor, pendingEffect, dirs, zip, upd, calls>>
    /\ UNCHANGED <<frameVars, eventVars, sheetVars>>

(***************************************************************************)
(* The rendering surface: frame loads, load errors and their timers         *)
(***************************************************************************)
\* {(Boolean(url) || Boolean(offlineUrl)) && <StyledWebview .../>}
Rendered == viewMounted /\ (url # NoUrl \/ offlineUrl # NoUrl)

\* offlineUrl ? offlineUrl : url
SourceUri == IF offlineUrl # NoUrl THEN offlineUrl ELSE url

\* source = loadedOnce ? { uri: offlineUrl ? offlineUrl : url } : undefined
Source == IF loadedOnce THEN SourceUri ELSE NoUrl

\* One frame load: whether registerComponentWindow and onLoadEnd were called for it,
\* and whether a load error or a further load came while its timers were pending.
NewLoad == [registered |-> FALSE, ended |-> FALSE, errorBeforeRegister |-> FALSE,
            errorBeforeEnd |-> FALSE, loadBeforeEnd |-> FALSE]

Timer(k, n) == [id |-> 2 * n - (IF k = "register" THEN 1 ELSE 0), kind |-> k, load |-> n]
Pending(k, n) == Timer(k, n) \in timers

\* onFrameLoad: the timer timeoutRef holds is cleared and a new one set for
\* registerComponentWindow (1 ms); another, kept nowhere, is set for onLoadEnd (200 ms).
TimersAfterFrameLoad(ts, ref, n) ==
    (IF ref # 0 THEN ClearTimeout(ts, ref) ELSE ts) \cup {Timer("register", n), Timer("loadEnd", n)}

OnFrameLoad ==
    /\ Rendered
    /\ Len(loads) < MaxLoads
    /\ LET n == Len(loads) + 1 IN
       /\ loadedOnce' = TRUE
       /\ timers' = TimersAfterFrameLoad(timers, timeoutRef, n)
       /\ timeoutRef' = Timer("register", n).id
       /\ loads' = Append([i \in DOMAIN loads |->
                              [loads[i] EXCEPT !.loadBeforeEnd = @ \/ Pending("loadEnd", i)]],
                          NewLoad)
    /\ UNCHANGED <<mainVars, frameErrors, eventVars, sheetVars>>

\* onError and onContentProcessDidTerminate: onLoadErrorHandler
OnLoadErrorHandler ==
    /\ Rendered
    /\ frameErrors < MaxErrors
    /\ timers' = TimersAfterLoadError(timers, timeoutRef)
    /\ calls' = Bump(calls, "onLoadError")
    /\ frameErrors' = frameErrors + 1
    /\ loads' = [i \in DOMAIN loads |->
                    [loads[i] EXCEPT !.errorBeforeRegister = @ \/ Pending("register", i),
                                     !.errorBeforeEnd = @ \/ Pending("loadEnd", i)]]
    /\ UNCHANGED <<platform, offlineOnly, canonical, archive, packageInfo, viewMounted, url,
                   offlineUrl, readAccessUrl, downloadingOfflineEditor, pendingEffect, dirs, zip,
                   runs, upd>>
    /\ UNCHANGED <<loadedOnce, timeoutRef, eventVars, sheetVars>>

\* A pending timer fires: registerComponentWindow(item, webViewRef.current) after 1 ms,
\* onLoadEnd() after 200 ms.
TimerFires(t) ==
    /\ t \in timers
    /\ t.kind = "loadEnd" => ~Pending("register", t.load)
    /\ timers' = timers \ {t}
    /\ loads' = [loads EXCEPT ![t.load] =
                    IF t.kind = "register" THEN [@ EXCEPT !.registered = TRUE]
                    ELSE [@ EXCEPT !.ended = TRUE]]
    /\ UNCHANGED <<mainVars, loadedOnce, timeoutRef, frameErrors, eventVars, sheetVars>>

Loads == 1..MaxLoads
Timers == {Timer(k, n) : k \in {"register", "loadEnd"}, n \in Loads}

(***************************************************************************)
(* onShouldStartLoadWithRequest                                              *)
(***************************************************************************)
ExternalUrl == [scheme |-> "https", ver |-> "", file |-> "link"]
RequestUrls == {RemoteUrl, ExternalUrl} \cup {FileUrl(v, f) : v \in Versions, f \in FileNames}
NavigationTypes == {"click", "other", ""}
NoRequest == [url |-> NoUrl, navigationType |-> "", source |-> NoUrl, allowed |-> FALSE]

\* (Platform.OS === 'ios' && request.navigationType === 'click') ||
\* (Platform.OS === 'android' && request.url !== url)
Intercepts(os, requestUrl, navigationType, editorUrl) ==
    \/ os = "ios" /\ navigationType = "click"
    \/ os = "android" /\ requestUrl # editorUrl

OnShouldStartLoadWithRequest(u, t) ==
    /\ Rendered
    /\ requests < MaxRequests
    /\ requests' = requests + 1
    /\ LET open == Intercepts(platform, u, t, url) IN
       /\ opened' = IF open THEN opened \cup {u} ELSE opened
       /\ lastRequest' = [url |-> u, navigationType |-> t, source |-> Source,
                          allowed |-> ~open]
    /\ UNCHANGED <<mainVars, frameVars, msgs, lastMsg, handled, sheetVars>>

(***************************************************************************)
(* onMessage                                                                 *)
(***************************************************************************)
\* The characters of a message: JSON's brackets, comma and a digit.
Chars == {"[", "]", ",", "1"}

RECURSIVE StringsOfLen(_)
StringsOfLen(n) ==
    IF n = 0 THEN {<<>>} ELSE {Append(s, c) : s \in StringsOfLen(n - 1), c \in Chars}
Messages == UNION {StringsOfLen(n) : n \in 0..MaxMsgLen}

\* A JSON value: a number or an array of values
Num(n) == [t |-> "number", n |-> n, a |-> <<>>]
Arr(es) == [t |-> "array", n |-> 0, a |-> es]
NoValue == [t |-> "", n |-> 0, a |-> <<>>]
Failed == [ok |-> FALSE, val |-> NoValue, next |-> 0]

RECURSIVE DigitsEnd(_, _)
\* the index after the digits that start at i
DigitsEnd(s, i) == IF i <= Len(s) /\ s[i] = "1" THEN DigitsEnd(s, i + 1) ELSE i

RECURSIVE NumberOf(_, _, _)
\* the number the digits s[i..j-1] write
NumberOf(s, i, j) == IF i >= j THEN 0 ELSE 10 * NumberOf(s, i, j - 1) + 1

RECURSIVE ParseValue(_, _)
RECURSIVE ParseElements(_, _, _)
\* JSON.parse, for the value that starts at s[i]
ParseValue(s, i) ==
    IF i > Len(s) THEN Failed
    ELSE IF s[i] = "1"
         THEN LET j == DigitsEnd(s, i) IN [ok |-> TRUE, val |-> Num(NumberOf(s, i, j)), next |-> j]
    ELSE IF s[i] = "["
         THEN IF i + 1 <= Len(s) /\ s[i + 1] = "]"
              THEN [ok |-> TRUE, val |-> Arr(<<>>), next |-> i + 2]
              ELSE ParseElements(s, i + 1, <<>>)
    ELSE Failed

ParseElements(s, i, acc) ==
    LET r == ParseValue(s, i) IN
    IF ~r.ok \/ r.next > Len(s) THEN Failed
    ELSE IF s[r.next] = "," THEN ParseElements(s, r.next + 1, Append(acc, r.val))
    ELSE IF s[r.next] = "]"
         THEN [ok |-> TRUE, val |-> Arr(Append(acc, r.val)), next |-> r.next + 1]
    ELSE Failed

\* JSON.parse(event.nativeEvent.data): the value, or a SyntaxError (ok = FALSE)
JSONParse(s) ==
    LET r == ParseValue(s, 1) IN IF r.ok /\ r.next = Len(s) + 1 THEN r ELSE Failed

NoCall == [item |-> NoInfo, data |-> NoValue]

\* A handler that forwards whatever the parse gave
HandledAfterUnguarded(h, item, parsed) ==
    [count |-> h.count + 1, last |-> [item |-> item, data |-> parsed.val]]

\* try { data = JSON.parse(...) } catch (e) { return }  handleMessage(liveComponent.item, data)
HandledAfter(h, item, parsed) ==
    IF parsed.ok THEN [count |-> h.count + 1, last |-> [item |-> item, data |-> parsed.val]]
    ELSE h

OnMessage(m) ==
    /\ Rendered
    /\ msgs < MaxMsgs
    /\ msgs' = msgs + 1
    /\ lastMsg' = m
    /\ handled' = HandledAfter(handled, packageInfo, JSONParse(m))
    /\ UNCHANGED <<mainVars, frameVars, requests, lastRequest, opened, sheetVars>>

InitEvents ==
    /\ requests = 0
    /\ lastRequest = NoRequest
    /\ opened = {}
    /\ msgs = 0
    /\ lastMsg = <<>>
    /\ handled = [count |-> 0, last |-> NoCall]

(***************************************************************************)
(* BottomSheet: the expandable sections and their animation values           *)
(***************************************************************************)
\* The keys of the sections, unique as React keys are
AllKeys == <<"a", "b", "c", "d", "e">>
SectionIndexes == 1..NumSections

\* props.sections: each section has a key and is expandable or not
SectionLists ==
    {[i \in SectionIndexes |-> [key |-> AllKeys[i], expandable |-> e[i]]] :
        e \in [SectionIndexes -> BOOLEAN]}

\* An animation value runs from 0 to 1, here in steps of 1 / Frames
Zero == 0
One == Frames

\* Animated.timing(value, {toValue, duration: 250}) on its value: where it started from,
\* where it goes, and the frames of its duration that have elapsed
NoAnimation == [active |-> FALSE, from |-> Zero, to |-> Zero, elapsed |-> 0]
Timing(from, to) == [active |-> TRUE, from |-> from, to |-> to, elapsed |-> 0]

\* animatedSections: sections.map(section => ({...section, animationValue: new Animated.Value(0)}))
NewAnimationValues == [i \in SectionIndexes |-> Zero]
NoAnimations == [i \in SectionIndexes |-> NoAnimation]

\* A target that expands every section
ToValueAlwaysOne(sectionKey, key) == One

\* toValue: sectionKey === section.key ? 1 : 0
ToValue(sectionKey, key) == IF sectionKey = key THEN One ELSE Zero

\* The animations expandSection builds and starts in parallel: one for each expandable
\* section, from the value it has now; a running animation of the value is stopped.
AnimationsAfterExpand(secs, values, anims, sectionKey) ==
    [i \in SectionIndexes |->
        IF secs[i].expandable THEN Timing(values[i], ToValue(sectionKey, secs[i].key))
        ELSE anims[i]]

Expanded(values) == {AllKeys[i] : i \in {j \in SectionIndexes : values[j] = One}}

\* The header of an expandable section is pressed: expandSection(section.key)
ExpandSection(sectionKey) ==
    /\ \E i \in SectionIndexes : sections[i].expandable /\ sections[i].key = sectionKey
    /\ animations' = AnimationsAfterExpand(sections, animationValue, animations, sectionKey)
    /\ selected' = sectionKey
    /\ wasExpanded' = Expanded(animationValue)
    /\ UNCHANGED <<sections, animationValue>>
    /\ UNCHANGED <<mainVars, frameVars, eventVars, layoutVars>>

Min(a, b) == IF a <= b THEN a ELSE b

\* The value of a timing animation after `elapsed` frames of its duration
ValueAt(a, elapsed) ==
    IF a.to >= a.from THEN a.from + ((a.to - a.from) * elapsed) \div Frames
    ELSE a.from - ((a.from - a.to) * elapsed) \div Frames

\* An animation frame, dt frames after the last one: every running animation updates
\* its value, and ends at toValue once its duration has elapsed.
AnimationFrame(dt) ==
    /\ \E i \in SectionIndexes : animations[i].active
    /\ animationValue' =
          [i \in SectionIndexes |->
              IF animations[i].active
              THEN ValueAt(animations[i], Min(animations[i].elapsed + dt, Frames))
              ELSE animationValue[i]]
    /\ animations' =
          [i \in SectionIndexes |->
              IF animations[i].active /\ animations[i].elapsed + dt < Frames
              THEN [animations[i] EXCEPT !.elapsed = @ + dt]
              ELSE NoAnimation]
    /\ UNCHANGED <<sections, selected, wasExpanded>>
    /\ UNCHANGED <<mainVars, frameVars, eventVars, layoutVars>>

\* The parent passes a new sections array: animatedSections is computed anew
UpdateSections(secs) ==
    /\ sections' = secs
    /\ animationValue' = NewAnimationValues
    /\ animations' = NoAnimations
    /\ selected' = ""
    /\ wasExpanded' = {}
    /\ UNCHANGED <<mainVars, frameVars, eventVars, layoutVars>>

(***************************************************************************)
(* BottomSheet: the measured heights and the snap point                      *)
(***************************************************************************)
\* The heights a layout event reports, and the heights of the window
Heights == {20 * h : h \in 0..MaxHeight}
ScreenHeights == {667, 800}

\* Heights are whole numbers here and snap points hundredths, so that 0.85 * screenHeight
\* is exact.
Hundredths(h) == 100 * h

\* const maxLimit = 0.85 * screenHeight
MaxLimit(height) == 85 * height

\* A memo without the placeholder for a content height of zero
SnapPointsUnguarded(contentHeight, height) ==
    IF Hundredths(contentHeight) < MaxLimit(height)
    THEN <<Hundredths(contentHeight)>> ELSE <<MaxLimit(height)>>

\* snapPoints: [1] for a content height of 0, else [contentHeight] under maxLimit and
\* [maxLimit] from it on
SnapPoints(contentHeight, height) ==
    IF contentHeight = 0 THEN <<Hundredths(1)>>
    ELSE IF Hundredths(contentHeight) < MaxLimit(height)
         THEN <<Hundredths(contentHeight)>> ELSE <<MaxLimit(height)>>

\* const contentHeight = useMemo(() => titleHeight + listHeight, ...)
ContentHeight(t, l) == t + l

\* onTitleLayout: setTitleHeight(e.nativeEvent.layout.height), of the rendered title
OnTitleLayout(h) ==
    /\ title
    /\ titleHeight' = h
    /\ snapPoints' = SnapPoints(ContentHeight(h, listHeight), screenHeight)
    /\ UNCHANGED <<title, listHeight, screenHeight>>
    /\ UNCHANGED <<sections, animationValue, animations, selected, wasExpanded>>
    /\ UNCHANGED <<mainVars, frameVars, eventVars>>

\* onListLayout: setListHeight(e.nativeEvent.layout.height)
OnListLayout(h) ==
    /\ listHeight' = h
    /\ snapPoints' = SnapPoints(ContentHeight(titleHeight, h), screenHeight)
    /\ UNCHANGED <<title, titleHeight, screenHeight>>
    /\ UNCHANGED <<sections, animationValue, animations, selected, wasExpanded>>
    /\ UNCHANGED <<mainVars, frameVars, eventVars>>

\* The title prop changes: if (!title) setTitleHeight(0)
SetTitle(t) ==
    /\ title' = t
    /\ titleHeight' = IF t THEN titleHeight ELSE 0
    /\ snapPoints' = SnapPoints(ContentHeight(titleHeight', listHeight), screenHeight)
    /\ UNCHANGED <<listHeight, screenHeight>>
    /\ UNCHANGED <<sections, animationValue, animations, selected, wasExpanded>>
    /\ UNCHANGED <<mainVars, frameVars, eventVars>>

\* The sheet before any layout event, on a window of the given height
Unmeasured(t, height) ==
    /\ title = t
    /\ titleHeight = 0
    /\ listHeight = 0
    /\ screenHeight = height
    /\ snapPoints = SnapPoints(ContentHeight(0, 0), height)

\* The sheet as first rendered with the sections `secs`
SheetWith(secs) ==
    /\ sections = secs
    /\ animationValue = NewAnimationValues
    /\ animations = NoAnimations
    /\ selected = ""
    /\ wasExpanded = {}

\* No sheet is shown
NoSections == [i \in SectionIndexes |-> [key |-> AllKeys[i], expandable |-> FALSE]]
NoSheet == SheetWith(NoSections) /\ Unmeasured(FALSE, 800)

(***************************************************************************)
(* The view from construction on                                            *)
(***************************************************************************)
\* The version directories a previous session can have left: none, or one version's.
NoDirs == [v \in Versions |-> Absent]
OnlyDir(w, d) == [v \in Versions |-> IF v = w THEN d ELSE Absent]
InitDirs == {NoDirs} \cup {OnlyDir(w, d) : w \in Versions, d \in DirStates \ {Absent}}

OkPkg == Pkg("", {"index.html"})

InitTimers ==
    /\ loadedOnce = FALSE
    /\ timeoutRef = 0
    /\ timers = {}
    /\ loads = <<>>
    /\ frameErrors = 0

\* The view after construction: nothing resolved, the first render's effect pending.
InitView ==
    /\ viewMounted = TRUE
    /\ url = NoUrl
    /\ offlineUrl = NoUrl
    /\ readAccessUrl = ""
    /\ downloadingOfflineEditor = FALSE
    /\ pendingEffect = TRUE
    /\ zip = FALSE
    /\ runs = <<>>
    /\ upd = [checks |-> <<>>, last |-> NoCheck]
    /\ calls = NoCalls
    /\ InitTimers
    /\ InitEvents

\* The components and bundles the resolution is run on: any component without a
\* latest_url over any bundle state, in either mode, and a component with a latest_url
\* over a fresh install or a good bundle of its version.
Init ==
    /\ InitView
    /\ NoSheet
    /\ platform = "android"
    /\ \/ /\ packageInfo \in [version : Versions, latest_url : {FALSE}]
          /\ offlineOnly \in BOOLEAN
          /\ canonical \in BOOLEAN
          /\ archive \in Packages
          /\ dirs \in InitDirs
       \/ /\ packageInfo = [version |-> "1.0", latest_url |-> TRUE]
          /\ offlineOnly = FALSE
          /\ canonical = TRUE
          /\ archive = OkPkg
          /\ dirs \in {NoDirs, OnlyDir("1.0", OkPkg)}

\* The components the rendering surface is exercised on: no latest_url, and a bundle
\* of its version that resolves to a local file, or one whose manifest does not parse.
InitSurface ==
    /\ InitView
    /\ NoSheet
    /\ offlineOnly \in BOOLEAN
    /\ packageInfo = [version |-> "1.0", latest_url |-> FALSE]
    /\ canonical = TRUE
    /\ archive = OkPkg
    /\ dirs \in {OnlyDir("1.0", OkPkg), OnlyDir("1.0", Pkg("invalid", {}))}

Runs == 1..MaxRuns

\* The steps of a resolution that finds its bundle on disk
NextResolved ==
    \/ RunEffect
    \/ \E r \in Runs : ExistsVersionDir(r)
    \/ \E r \in Runs : ListVersionDir(r)
    \/ \E r \in Runs : ReadVersionDir(r)
    \/ \E r \in Runs : ReadPackageJson(r)
    \/ \E r \in Runs : ExistsMainFile(r)
    \/ Unmount

\* The steps of the download block
NextDownload ==
    \/ \E r \in Runs : ExistsEditorDir(r)
    \/ \E r \in Runs, ok \in BOOLEAN : UnlinkEditorDir(r, ok)
    \/ \E r \in Runs, ok \in BOOLEAN : DownloadFile(r, ok)
    \/ \E r \in Runs, ok \in BOOLEAN, d \in DirStates : Unzip(r, ok, d)
    \/ \E r \in Runs, ok \in BOOLEAN : UnlinkZip(r, ok)

Next ==
    \/ NextResolved
    \/ NextDownload
    \/ \E r \in Runs, kind \in {"throw", "null", "json"}, info \in Manifests,
          started \in BOOLEAN : FetchSettles(r, kind, info, started)

\* The resolution effect, the download and the update check
Spec == Init /\ [][Next]_vars

NextFrame ==
    \/ NextResolved
    \/ OnFrameLoad
    \/ OnLoadErrorHandler
    \/ \E t \in Timers : TimerFires(t)

\* The frame loads, load errors and timers of a resolved view
InitFrames == InitSurface /\ platform = "android"
SpecFrame == InitFrames /\ [][NextFrame]_vars

NextNav ==
    \/ NextResolved
    \/ OnFrameLoad
    \/ \E u \in RequestUrls, t \in NavigationTypes : OnShouldStartLoadWithRequest(u, t)

\* The navigation requests of a resolved view
InitNav == InitSurface /\ platform \in {"ios", "android"}
SpecNav == InitNav /\ [][NextNav]_vars

NextMsg ==
    \/ NextResolved
    \/ \E m \in Messages : OnMessage(m)

\* The components the resolution is repeated on: no latest_url, and either any
\* populated bundle of its version or nothing on disk.
InitRepeat ==
    /\ InitView
    /\ NoSheet
    /\ platform = "android"
    /\ offlineOnly \in BOOLEAN
    /\ packageInfo = [version |-> "1.0", latest_url |-> FALSE]
    /\ canonical = TRUE
    /\ archive = OkPkg
    /\ dirs \in {OnlyDir(packageInfo.version, d) : d \in Packages} \cup {NoDirs}

NextRepeat ==
    \/ NextResolved
    \/ NextDownload
    \/ PropsChange

\* Resolutions repeated as the parent re-renders the view
SpecRepeat == InitRepeat /\ [][NextRepeat]_vars

\* The inbound messages of a resolved view
InitMsg == InitSurface /\ platform = "android" /\ ~offlineOnly
SpecMsg == InitMsg /\ [][NextMsg]_vars

NextSheet ==
    \/ \E i \in SectionIndexes : ExpandSection(AllKeys[i])
    \/ \E dt \in 1..Frames : AnimationFrame(dt)
    \/ \E secs \in SectionLists : UpdateSections(secs)

\* The action sheet over any sections, beside a view that is left alone
InitSheet ==
    /\ InitView
    /\ platform = "android"
    /\ offlineOnly = FALSE
    /\ packageInfo = [version |-> "1.0", latest_url |-> FALSE]
    /\ canonical = TRUE
    /\ archive = OkPkg
    /\ dirs = NoDirs
    /\ \E secs \in SectionLists : SheetWith(secs)
    /\ Unmeasured(FALSE, 800)

SpecSheet == InitSheet /\ [][NextSheet]_vars

NextSnap ==
    \/ \E h \in Heights : OnTitleLayout(h)
    \/ \E h \in Heights : OnListLayout(h)
    \/ \E t \in BOOLEAN : SetTitle(t)

\* The action sheet as it is measured, on any window
InitSnap ==
    /\ InitView
    /\ platform = "android"
    /\ offlineOnly = FALSE
    /\ packageInfo = [version |-> "1.0", latest_url |-> FALSE]
    /\ canonical = TRUE
    /\ archive = OkPkg
    /\ dirs = NoDirs
    /\ SheetWith(NoSections)
    /\ \E t \in BOOLEAN, height \in ScreenHeights : Unmeasured(t, height)

SpecSnap == InitSnap /\ [][NextSnap]_vars

\* The steps of a resolution and its download when every step of the download succeeds
\* and the view stays mounted
NextSucceeds ==
    \/ RunEffect
    \/ \E r \in Runs : ExistsVersionDir(r)
    \/ \E r \in Runs : ListVersionDir(r)
    \/ \E r \in Runs : ExistsEditorDir(r)
    \/ \E r \in Runs : UnlinkEditorDir(r, TRUE)
    \/ \E r \in Runs : DownloadFile(r, TRUE)
    \/ \E r \in Runs : Unzip(r, TRUE, archive)
    \/ \E r \in Runs : UnlinkZip(r, TRUE)
    \/ \E r \in Runs : ReadVersionDir(r)
    \/ \E r \in Runs : ReadPackageJson(r)
    \/ \E r \in Runs : ExistsMainFile(r)

\* A component with a canonical URL and no latest_url whose version directory is absent
\* (nothing on disk, or a bundle of another version), and an archive whose main file
\* is in it
InitFirstDownload ==
    /\ InitView
    /\ NoSheet
    /\ platform \in {"ios", "android"}
    /\ offlineOnly \in BOOLEAN
    /\ packageInfo = [version |-> "1.0", latest_url |-> FALSE]
    /\ canonical = TRUE
    /\ archive \in {OkPkg, Pkg("editor.html", {"editor.html"})}
    /\ dirs \in {NoDirs} \cup {OnlyDir("2.0", d) : d \in Packages \cup {EmptyDir}}

\* The first download of a bundle, with nothing failing
SpecFirstDownload == InitFirstDownload /\ [][NextSucceeds]_vars

(***************************************************************************)
(* The claims                                                                *)
(***************************************************************************)
ThrewWhileCurrent(r) == runs[r].outcome = "threw" /\ runs[r].current

\* C1: when the component has a canonical URL and getOfflineEditorUrl rejects while the
\* effect is still current, then without offlineOnly the remote URL is stored as url and
\* onLoadError is not called, and with offlineOnly onLoadError is called (once per such
\* rejection) and the remote URL is never stored.
C1_CatchFallsBackOrSignals ==
    /\ \A r \in DOMAIN runs :
          ThrewWhileCurrent(r) =>
             IF offlineOnly THEN calls.onLoadError >= 1 ELSE url = RemoteUrl
    /\ offlineOnly =>
          /\ url = NoUrl
          /\ calls.onLoadError = Cardinality({r \in DOMAIN runs : ThrewWhileCurrent(r)})
    /\ ~offlineOnly => calls.onLoadError = 0

\* The resolution rejected in a run whose effect was still current, and the remote URL
\* was stored without a load error being signalled.
C1_Witness ==
    \E r \in DOMAIN runs :
       /\ ThrewWhileCurrent(r)
       /\ ~offlineOnly
       /\ canonical
       /\ url = RemoteUrl
       /\ calls.onLoadError = 0

\* The same in offline-only mode: the load error was signalled and no URL stored.
C1_WitnessOfflineOnly ==
    \E r \in DOMAIN runs :
       ThrewWhileCurrent(r) /\ offlineOnly /\ url = NoUrl /\ calls.onLoadError = 1

\* C2: when the version directory is populated but the resolved main file is not on
\* disk, the resolution yields an empty result and the remote URL becomes the URL that
\* is loaded.
C2_MissingMainFileLoadsRemote ==
    \A r \in DOMAIN runs :
       (/\ runs[r].found = "populated"
        /\ runs[r].outcome = "returned"
        /\ runs[r].result = NoUrl
        /\ runs[r].current
        /\ ~offlineOnly
        /\ r = Len(runs))
       => url = RemoteUrl /\ Rendered /\ SourceUri = RemoteUrl

\* The part of C2 the code has: such a resolution yields the empty result.
C2_MissingMainFileYieldsEmpty ==
    \E r \in DOMAIN runs :
       /\ runs[r].found = "populated"
       /\ runs[r].outcome = "returned"
       /\ runs[r].result = NoUrl
       /\ runs[r].main \notin dirs[runs[r].ver].files


Downloaders == {r \in DOMAIN runs : runs[r].ops # <<>>}
FoundPopulated == {r \in DOMAIN runs : runs[r].found = "populated"}
Settled(r) == runs[r].pc = "done" /\ runs[r].outcome # ""

\* A resolution over a populated version directory starts no download: no delete, no
\* download, no unpack, and onDownloadEditorStart/End are called by downloads only.
NoDownloadWhenPopulated ==
    /\ \A r \in FoundPopulated : runs[r].ops = <<>>
    /\ calls.onDownloadEditorStart = Cardinality(Downloaders)
    /\ calls.onDownloadEditorEnd <= Cardinality(Downloaders)

\* Resolutions over the same populated directory return the same result.
SameResultEachTime ==
    Downloaders = {} =>
       /\ ~zip
       /\ \A r1, r2 \in FoundPopulated :
             (Settled(r1) /\ Settled(r2)) =>
                /\ runs[r1].outcome = runs[r2].outcome
                /\ runs[r1].result = runs[r2].result

\* A step of a resolution that has started no download leaves the filesystem as it is.
LeavesFilesystem ==
    \A r \in DOMAIN runs' :
       (/\ runs'[r].ops = <<>>
        /\ (r \notin DOMAIN runs \/ runs'[r] # runs[r]))
       => dirs' = dirs /\ zip' = zip

\* C3: given a version directory that exists and is non-empty, offline resolution
\* performs no delete, no download and no unpack and calls neither onDownloadEditorStart
\* nor onDownloadEditorEnd; repeated resolutions leave the filesystem unchanged and
\* return the same URL each time.
C3_PopulatedIsReusedIdempotently ==
    /\ [](NoDownloadWhenPopulated /\ SameResultEachTime)
    /\ [][LeavesFilesystem]_vars

\* Three resolutions in a row over a populated directory returned the same file URL
\* and no download callback was called.
C3_Witness ==
    /\ Len(runs) = 3
    /\ \A r \in DOMAIN runs :
          /\ runs[r].found = "populated"
          /\ runs[r].outcome = "returned"
          /\ runs[r].result = FileUrl("1.0", "index.html")
    /\ dirs["1.0"] = OkPkg
    /\ calls.onDownloadEditorStart = 0
    /\ offlineUrl = FileUrl("1.0", "index.html")


IsPrefix(s, t) == Len(s) <= Len(t) /\ SubSeq(t, 1, Len(s)) = s

\* The download block in full, with and without a directory to delete first
DownloadSequences ==
    {<<"start", "unlinkDir", "download", "unzip", "unlinkZip", "end">>,
     <<"start", "download", "unzip", "unlinkZip", "end">>}

\* The block cut short by a failing step, which only the finally block follows
FailedSequences ==
    {SubSeq(q, 1, n) \o <<"fail", "end">> : q \in DownloadSequences, n \in 1..4}

\* Every resolution that found the directory absent or empty is in the download block
\* or has been through it, in order.
DownloadsInOrder ==
    \A r \in DOMAIN runs :
       runs[r].found \in {"absent", "empty"} =>
          /\ runs[r].ops # <<>>
          /\ \E q \in DownloadSequences \cup FailedSequences : IsPrefix(runs[r].ops, q)
          /\ runs[r].pc \in {"readDir", "readFile", "existsMain"} =>
                runs[r].ops \in DownloadSequences
          /\ runs[r].pc = "done" =>
                runs[r].ops \in DownloadSequences \cup FailedSequences

\* The download begins with no unpacked directory left, the unpacking has the archive
\* to unpack, and the archive is gone once it is deleted after the unpacking.
DownloadSteps ==
    \A r \in DOMAIN runs :
       /\ (runs[r].pc # "download" /\ runs'[r].pc = "download") =>
             \A v \in Versions : dirs'[v] = Absent
       /\ (runs[r].pc = "unzip" /\ runs'[r].pc = "unlinkZip") =>
             zip /\ dirs'[runs[r].ver] = archive
       /\ (runs[r].pc = "unlinkZip" /\ runs'[r].pc = "readDir") =>
             ~zip' /\ dirs'[runs[r].ver] = archive

\* C4: given an absent or empty version directory, offline resolution deletes the
\* previously unpacked directory (if any) before the download begins, downloads the
\* archive before unpacking it, and deletes the archive after a successful unpack;
\* every resolution that finds the directory absent or empty performs this sequence.
C4_DownloadSequence ==
    /\ []DownloadsInOrder
    /\ [][DownloadSteps]_vars

\* A resolution found only a stale version on disk, deleted it, downloaded, unpacked
\* and deleted the archive.
C4_Witness ==
    \E r \in DOMAIN runs :
       /\ runs[r].found = "absent"
       /\ runs[r].ops = <<"start", "unlinkDir", "download", "unzip", "unlinkZip", "end">>
       /\ dirs[runs[r].ver] = archive
       /\ \A v \in Versions \ {runs[r].ver} : dirs[v] = Absent
       /\ ~zip


\* The update check that ended last, without a latest_url, made no fetch and no mutation.
NoLatestUrlNoCall ==
    ~upd.last.latest =>
       upd.last.fetches = 0 /\ upd.last.mutations = 0 /\ upd.last.saved = NoInfo

\* It made no mutation when the fetch gave the version the component has, or no manifest.
SameVersionNoMutation ==
    /\ (upd.last.got = "json" /\ upd.last.fetched.version = upd.last.cur) =>
          upd.last.mutations = 0 /\ upd.last.saved = NoInfo
    /\ upd.last.got \in {"throw", "null"} =>
          upd.last.mutations = 0 /\ upd.last.saved = NoInfo

FetchedOtherVersion ==
    upd.last.got = "json" /\ upd.last.fetched.version # upd.last.cur

\* A check that ends with a mutation leaves the fetched manifest as package_info.
SavesFetchedManifest ==
    (upd'.last # upd.last /\ upd'.last.mutations = 1) => packageInfo' = upd'.last.fetched

\* C5 as stated: a run of checkForComponentUpdate makes no network call and no mutation
\* without a latest_url, no mutation when the fetched version equals the current one,
\* and exactly one changeAndSaveItem mutation, to the fetched manifest, when it differs.
C5_AsStated ==
    /\ NoLatestUrlNoCall
    /\ SameVersionNoMutation
    /\ FetchedOtherVersion => upd.last.mutations = 1 /\ upd.last.saved = upd.last.fetched

\* C5, amended: ... and when the fetched version differs it makes exactly one
\* changeAndSaveItem mutation that sets package_info to the fetched manifest if
\* application.isStarted() is true, and no mutation if it is false.
C5_UpdateCheck ==
    /\ [](/\ NoLatestUrlNoCall
          /\ SameVersionNoMutation
          /\ FetchedOtherVersion =>
                IF upd.last.started
                THEN upd.last.mutations = 1 /\ upd.last.saved = upd.last.fetched
                ELSE upd.last.mutations = 0 /\ upd.last.saved = NoInfo)
    /\ [][SavesFetchedManifest]_vars

\* A check fetched another version with the application started and saved it once.
C5_Witness ==
    /\ FetchedOtherVersion
    /\ upd.last.started
    /\ upd.last.fetches = 1
    /\ upd.last.mutations = 1
    /\ packageInfo = upd.last.fetched


\* What the download block does whether or not the effect is still current
DownloadBlockCalls ==
    {"setDownloadingOfflineEditor", "onDownloadEditorStart", "onDownloadEditorEnd"}

TornDown(r) == ~runs[r].mounted

\* C8 as stated: once the view is unmounted or the effect torn down, an in-flight
\* resolution makes no further state update and no further call to the caller's
\* callbacks, the mounted flag being checked after each suspension point.
C8_AsStated == \A r \in DOMAIN runs : runs[r].late = {}

\* What a torn-down resolution still does is within the download block, and the result
\* of a resolution that settles torn down is dropped.
OnlyDownloadBlockLate ==
    \A r \in DOMAIN runs :
       /\ runs[r].late \subseteq DownloadBlockCalls
       /\ (runs[r].outcome \in {"returned", "threw"} /\ ~runs[r].current) =>
             runs[r].stored = "dropped"

\* The step that settles a torn-down resolution stores no URL and signals no load error.
SettlesSilently ==
    \A r \in DOMAIN runs :
       (TornDown(r) /\ runs[r].pc # "done" /\ runs'[r].pc = "done") =>
          /\ url' = url
          /\ offlineUrl' = offlineUrl
          /\ calls'.onLoadError = calls.onLoadError
          /\ timers' = timers

\* C8, amended: the mounted flag is checked once, after getOfflineEditorUrl settles: a
\* resolution that settles after the view is unmounted or the effect torn down calls
\* neither setOfflineUrl nor setUrl nor onLoadError, but its download block still calls
\* setDownloadingOfflineEditor, onDownloadEditorStart and onDownloadEditorEnd.
C8_MountedCheckedOnSettling ==
    /\ []OnlyDownloadBlockLate
    /\ [][SettlesSilently]_vars

\* A torn-down resolution went through the download, called the download callbacks,
\* resolved to a file URL and dropped it.
C8_Witness ==
    \E r \in DOMAIN runs :
       /\ TornDown(r)
       /\ runs[r].outcome = "returned"
       /\ runs[r].result # NoUrl
       /\ runs[r].stored = "dropped"
       /\ runs[r].late = DownloadBlockCalls
       /\ offlineUrl = NoUrl


SignalledByCatch == {r \in DOMAIN runs : runs[r].stored = "onLoadError"}

\* C6: if a frame load error (onError or onContentProcessDidTerminate) comes after a
\* frame load and before that load's registration delay has elapsed, the pending
\* registration timer is cancelled, registerComponentWindow is never called for that
\* load, and onLoadError is signalled to the caller (once per load error).
C6_ErrorCancelsRegistration ==
    /\ \A n \in DOMAIN loads :
          loads[n].errorBeforeRegister =>
             /\ ~loads[n].registered
             /\ ~Pending("register", n)
             /\ calls.onLoadError >= 1
    /\ calls.onLoadError = frameErrors + Cardinality(SignalledByCatch)

\* A load error came while a load's registration timer was pending; the load-end
\* delay of that load has since elapsed and the window was not registered.
C6_Witness ==
    \E n \in DOMAIN loads :
       /\ loads[n].errorBeforeRegister
       /\ loads[n].ended
       /\ ~loads[n].registered
       /\ frameErrors = 1
       /\ calls.onLoadError = 1

\* C7: the load-end delay timer of a frame load is tracked and cleared on a load error
\* and on a further frame load: no onLoadEnd fires for a load after a load error or a
\* further load came while its load-end timer was pending.
C7_LoadEndTimerCleared ==
    \A n \in DOMAIN loads :
       (loads[n].errorBeforeEnd \/ loads[n].loadBeforeEnd) => ~loads[n].ended


\* The last request was for the URL the rendering surface had been given
RequestForSource ==
    /\ requests > 0
    /\ lastRequest.source # NoUrl
    /\ lastRequest.url = lastRequest.source

\* C9: onShouldStartLoadWithRequest never intercepts the initial editor load: on either
\* platform a request for the URL handed to the rendering surface (the offline file URL
\* when one is set, otherwise the remote URL) that is not a click is allowed to load
\* inline and is not passed to the URL opener.
C9_EditorLoadNotIntercepted ==
    (RequestForSource /\ lastRequest.navigationType # "click") =>
       /\ lastRequest.allowed
       /\ lastRequest.url \notin opened


(***************************************************************************)
(* The JSON texts over the message alphabet, by their grammar               *)
(***************************************************************************)
IsNumberText(s) == Len(s) >= 1 /\ \A i \in DOMAIN s : s[i] = "1"

RECURSIVE IsJsonText(_)
RECURSIVE IsElementsText(_)
\* value ::= number | "[" "]" | "[" elements "]"
IsJsonText(s) ==
    \/ IsNumberText(s)
    \/ /\ Len(s) >= 2
       /\ s[1] = "[" /\ s[Len(s)] = "]"
       /\ Len(s) = 2 \/ IsElementsText(SubSeq(s, 2, Len(s) - 1))

\* elements ::= value | value "," elements
IsElementsText(s) ==
    \/ IsJsonText(s)
    \/ \E k \in 2..(Len(s) - 1) :
          /\ s[k] = ","
          /\ IsJsonText(SubSeq(s, 1, k - 1))
          /\ IsElementsText(SubSeq(s, k + 1, Len(s)))

RECURSIVE DigitsOf(_)
\* the decimal digits of a number written with the digit 1
DigitsOf(n) == IF n < 10 THEN <<"1">> ELSE Append(DigitsOf(n \div 10), "1")

RECURSIVE Stringify(_)
RECURSIVE StringifyAll(_)
\* The text of a value (JSON.stringify)
Stringify(v) ==
    IF v.t = "number" THEN DigitsOf(v.n) ELSE <<"[">> \o StringifyAll(v.a) \o <<"]">>

StringifyAll(es) ==
    IF es = <<>> THEN <<>>
    ELSE IF Len(es) = 1 THEN Stringify(es[1])
    ELSE Stringify(es[1]) \o <<",">> \o StringifyAll(Tail(es))

\* A message is handled: forwarded once, with the value its text writes and the
\* component, when it is a JSON text; not forwarded when it is not.
ForwardsJsonOnly ==
    msgs' = msgs + 1 =>
       IF IsJsonText(lastMsg')
       THEN /\ handled'.count = handled.count + 1
            /\ handled'.last.item = packageInfo
            /\ handled'.last.data.t \in {"number", "array"}
            /\ Stringify(handled'.last.data) = lastMsg'
       ELSE handled' = handled

\* C10: for an inbound message string that is not valid JSON the handler does not call
\* handleMessage; for a well-formed payload it calls handleMessage exactly once with the
\* parsed payload, unchanged, and the current component reference.
C10_ForwardsWellFormedOnly ==
    /\ [](handled.count <= msgs)
    /\ [][ForwardsJsonOnly]_vars

\* The message [[]] was forwarded once, as an array holding an empty array.
C10_Witness ==
    /\ msgs = 1
    /\ lastMsg = <<"[", "[", "]", "]">>
    /\ handled.count = 1
    /\ handled.last.data = Arr(<<Arr(<<>>)>>)
    /\ handled.last.item = packageInfo

\* The message [1, was dropped.
C10_WitnessMalformed ==
    /\ msgs = 1
    /\ lastMsg = <<"[", "1", ",">>
    /\ handled.count = 0


ExpandedIndexes == {i \in SectionIndexes : animationValue[i] = One}
AnimationsDone == \A i \in SectionIndexes : ~animations[i].active

\* At most one section is at 1, and a section that is not expandable stays at 0.
AtMostOneExpanded ==
    /\ Cardinality(ExpandedIndexes) <= 1
    /\ \A i \in SectionIndexes : ~sections[i].expandable => animationValue[i] = Zero

\* Once the animations of a selection are done, the selected section is at 1 and every
\* other expandable section at 0.
SelectionReached ==
    (selected # "" /\ AnimationsDone) =>
       \A i \in SectionIndexes :
          sections[i].expandable =>
             animationValue[i] = (IF sections[i].key = selected THEN One ELSE Zero)

\* While the animations of a selection run, a section that was at 1 and is not the
\* selected one is below 1 as soon as the selected one has left 0.
NeverBothAtOne ==
    \A i, j \in SectionIndexes :
       (/\ i # j
        /\ sections[i].key \in wasExpanded
        /\ sections[j].key = selected
        /\ animationValue[j] > Zero)
       => animationValue[i] < One

\* C11: after any sequence of expandable-section header selections at most one
\* expandable section is expanded: selecting B's header while A is expanded drives A's
\* value to 0, B's to 1 and every other expandable section's to 0, and no state of the
\* transition has both A and B at 1.
C11_AtMostOneSectionExpanded ==
    /\ AtMostOneExpanded
    /\ SelectionReached
    /\ NeverBothAtOne

\* Section b was selected while section a was expanded, and the animations are done:
\* a is at 0 and b at 1.
C11_Witness ==
    /\ selected = "b"
    /\ wasExpanded = {"a"}
    /\ AnimationsDone
    /\ sections[1].expandable /\ sections[2].expandable
    /\ animationValue[1] = Zero
    /\ animationValue[2] = One

\* The same transition half way: a has left 1 and b has left 0.
C11_WitnessMidway ==
    /\ selected = "b"
    /\ wasExpanded = {"a"}
    /\ ~AnimationsDone
    /\ animationValue[1] \in (Zero + 1)..(One - 1)
    /\ animationValue[2] \in (Zero + 1)..(One - 1)


\* The snap point for content height c on a window of height s, as the sheet is to have
\* it, in hundredths
ExpectedSnapPoint(c, s) ==
    IF c = 0 THEN 100 ELSE IF 100 * c < 85 * s THEN 100 * c ELSE 85 * s

\* C12: the sheet has a single snap point, which for content height c (title height +
\* list height) and screen height s is 1 when c = 0, c when 0 < c < 0.85 * s and
\* 0.85 * s when c >= 0.85 * s: it is always positive and, once the content is measured,
\* never over 85% of the screen height (c = 400, s = 800 gives 400; c = 900, s = 800
\* gives 680).
C12_SnapPoint ==
    /\ Len(snapPoints) = 1
    /\ snapPoints[1] = ExpectedSnapPoint(titleHeight + listHeight, screenHeight)
    /\ snapPoints[1] > 0
    /\ titleHeight + listHeight > 0 => 100 * snapPoints[1] <= 85 * (100 * screenHeight)
    /\ SnapPoints(400, 800) = <<40000>>
    /\ SnapPoints(900, 800) = <<68000>>
    /\ SnapPoints(0, 800) = <<100>>

\* Content of height 900 on a window of height 800: the snap point is capped at 680.
C12_Witness ==
    /\ titleHeight + listHeight = 900
    /\ titleHeight > 0
    /\ screenHeight = 800
    /\ snapPoints = <<68000>>


\* A download has started and its finally block has not run yet
DownloadInProgress ==
    \E r \in DOMAIN runs :
       runs[r].ops # <<>> /\ runs[r].ops[Len(runs[r].ops)] # "end"

\* C13: with a canonical URL, the version directory absent at first, and the download,
\* the unpacking and the main-file lookup all succeeding, the re-runs of the effect that
\* the downloadingOfflineEditor flag causes never signal onLoadError and never store
\* the remote URL while the download is in progress, and one download is started.
C13_NoFallbackWhileDownloading ==
    /\ DownloadInProgress => calls.onLoadError = 0 /\ url = NoUrl
    /\ Cardinality(Downloaders) <= 1
    /\ calls.onDownloadEditorStart <= 1

====
